---- MODULE Spec2Model ----
\* Loot-table rolling engine (package loot): Value ranges, weighted entry
\* selection (Pool.rollEntry), the function pipeline and LootTable.Generate.
\*
\* Strings are modelled as sequences of tokens, so that the prefix
\* "minecraft:" and the letter case of an identifier are things that
\* strings.TrimPrefix and strings.ToLower really act on.
\* rand.Intn(n) is a nondeterministic choice in 0..n-1; every operator that
\* draws returns the SET of its possible outcomes together with the draws it
\* consumed, in the order in which it consumed them.
EXTENDS Integers, Sequences, FiniteSets, TLC

VARIABLES
    table,      \* the parsed LootTable: a sequence of pools
    pc,         \* position of the running call
    pi,         \* Generate: index of the pool being handled (range loop)
    i,          \* Generate: loop counter of the inner loop
    rolls,      \* Generate: the local variable rolls of the current pool
    stacks,     \* Generate: the result slice built so far
    rolled,     \* history: the value of rolls obtained for each pool handled
    calls,      \* history: one record per rollEntry call of the current Generate
    ret,        \* what the last call (rollEntry or RollValue) returned
    range,      \* the Value handed to a direct RollValue call
    source,     \* the table source Generate(path) is called on
    loadErr     \* the err LoadTable returned ("unset" before the call)

vars == <<table, pc, pi, i, rolls, stacks, rolled, calls, ret, range, source, loadErr>>

----------------------------------------------------------------------------
\* Bounds of the model.

MaxPools == 2
MaxEntries == 2
MaxWeight == 2
NegWeight == 1
MaxVal == 3

----------------------------------------------------------------------------
\* Strings.

Lower(tok) ==
    CASE tok = "Minecraft:" -> "minecraft:"
      [] tok = "Healing" -> "healing"
      [] tok = "Sharpness" -> "sharpness"
      [] tok = "Stick" -> "stick"
      [] OTHER -> tok

ToLower(s) == [k \in DOMAIN s |-> Lower(s[k])]

TrimPrefix(s, prefix) ==
    IF Len(s) >= 1 /\ s[1] = prefix THEN Tail(s) ELSE s

----------------------------------------------------------------------------
\* type Value struct { Min, Max int }

Value(min, max) == [Min |-> min, Max |-> max]

\* rand.Intn(n): any of 0..n-1.
Intn(n) == 0 .. (n - 1)

\* RollValue with an off-by-one width: a plausible slip of line 181.
RollValueNarrow(v) ==
    IF v.Max <= v.Min
    THEN {[val |-> v.Min, draws |-> <<>>]}
    ELSE {[val |-> d + v.Min, draws |-> <<[n |-> v.Max - v.Min, d |-> d]>>] :
            d \in Intn(v.Max - v.Min)}

\* func RollValue(v Value) int: the set of (value, draws consumed).
RollValue(v) ==
    IF v.Max <= v.Min
    THEN {[val |-> v.Min, draws |-> <<>>]}
    ELSE {[val |-> d + v.Min, draws |-> <<[n |-> v.Max - v.Min + 1, d |-> d]>>] :
            d \in Intn(v.Max - v.Min + 1)}

\* The draws of one call, labelled with the function (index in the entry's
\* list, 0 for the weight draw) and the place that consumed them.
Tag(draws, fn, what) ==
    [k \in DOMAIN draws |-> [fn |-> fn, what |-> what, n |-> draws[k].n, d |-> draws[k].d]]

----------------------------------------------------------------------------
\* The catalogs the engine looks identifiers up in (world.ItemByName and the
\* item, enchantment and potion packages): a small item catalog with the
\* compatibility and max-level facts of the enchantments.

Item(kind, type) == [kind |-> kind, Type |-> type]

\* world.ItemByName(name, 0)
ItemByName(name) ==
    CASE name = <<"minecraft:", "stick">> -> [ok |-> TRUE, item |-> Item("stick", "none")]
      [] name = <<"minecraft:", "diamond_sword">> -> [ok |-> TRUE, item |-> Item("diamond_sword", "none")]
      [] name = <<"minecraft:", "compass">> -> [ok |-> TRUE, item |-> Item("compass", "none")]
      [] name = <<"minecraft:", "potion">> -> [ok |-> TRUE, item |-> Item("potion", "water")]
      [] name = <<"minecraft:", "splash_potion">> -> [ok |-> TRUE, item |-> Item("splash_potion", "water")]
      [] OTHER -> [ok |-> FALSE, item |-> Item("nil", "none")]

\* s.Item().(item.Potion) and s.Item().(item.SplashPotion)
IsPotion(it) == it.kind = "potion"
IsSplashPotion(it) == it.kind = "splash_potion"

\* enc.CompatibleWithItem(s.Item())
CompatibleWithItem(enc, it) ==
    \/ it.kind = "diamond_sword" /\
         enc \in {"sharpness", "knockback", "fire_aspect", "unbreaking",
                  "mending", "curse_of_vanishing"}
    \/ it.kind = "compass" /\ enc = "curse_of_vanishing"

\* enc.MaxLevel()
MaxLevel(enc) ==
    CASE enc \in {"sharpness", "efficiency", "power"} -> 5
      [] enc \in {"protection", "fire_protection", "feather_falling",
                  "blast_protection", "projectile_protection"} -> 4
      [] enc \in {"thorns", "respiration", "depth_strider", "unbreaking",
                  "fortune", "quick_charge", "soul_speed", "swift_sneak"} -> 3
      [] enc \in {"knockback", "fire_aspect", "punch"} -> 2
      [] OTHER -> 1

\* item.Stack{} and item.NewStack(it, count)
NullStack == [item |-> Item("nil", "none"), count |-> 0, enchantments |-> <<>>]
NewStack(it, count) == [item |-> it, count |-> count, enchantments |-> <<>>]

\* s.WithEnchantments(item.NewEnchantment(enc, lvl)): added to those present.
WithEnchantments(s, enc, lvl) ==
    [s EXCEPT !.enchantments = Append(@, [t |-> enc, lvl |-> lvl])]

----------------------------------------------------------------------------
\* Registries of the package.

EnchantmentNames ==
    {"protection", "fire_protection", "feather_falling", "blast_protection",
     "projectile_protection", "thorns", "respiration", "depth_strider",
     "aqua_affinity", "sharpness", "knockback", "fire_aspect", "efficiency",
     "silk_touch", "unbreaking", "fortune", "power", "punch", "flame",
     "infinity", "mending", "curse_of_vanishing", "multishot", "quick_charge",
     "soul_speed", "swift_sneak"}

enchantmentByName(name) ==
    LET key == ToLower(TrimPrefix(name, "minecraft:"))
        ok == Len(key) = 1 /\ key[1] \in EnchantmentNames
    IN [ok |-> ok, enc |-> IF ok THEN key[1] ELSE "nil"]

getAllEnchantments ==
    <<"protection", "fire_protection", "feather_falling",
      "blast_protection", "projectile_protection", "thorns",
      "respiration", "depth_strider", "aqua_affinity",
      "sharpness", "knockback", "fire_aspect",
      "efficiency", "silk_touch", "unbreaking",
      "fortune", "power", "punch",
      "flame", "infinity", "mending",
      "curse_of_vanishing", "multishot", "quick_charge",
      "soul_speed", "swift_sneak">>

PotionNames ==
    {"water", "mundane", "long_mundane", "thick", "awkward", "night_vision",
     "long_night_vision", "invisibility", "long_invisibility", "leaping",
     "long_leaping", "strong_leaping", "fire_resistance",
     "long_fire_resistance", "swiftness", "long_swiftness",
     "strong_swiftness", "slowness", "long_slowness", "strong_slowness",
     "water_breathing", "long_water_breathing", "healing", "strong_healing",
     "harming", "strong_harming", "poison", "long_poison", "strong_poison",
     "regeneration", "long_regeneration", "strong_regeneration", "strength",
     "long_strength", "strong_strength", "weakness", "long_weakness",
     "wither", "turtle_master", "long_turtle_master", "strong_turtle_master",
     "slow_falling", "long_slow_falling"}

potionByName(name) ==
    LET key == ToLower(TrimPrefix(name, "minecraft:"))
        ok == Len(key) = 1 /\ key[1] \in PotionNames
    IN [ok |-> ok, pot |-> IF ok THEN key[1] ELSE "nil"]

----------------------------------------------------------------------------
\* Application helpers.

\* The compatible enchantments, in catalog order (the loop of lines 289-293).
RECURSIVE validEnchantments(_, _)
validEnchantments(s, encs) ==
    IF encs = <<>> THEN <<>>
    ELSE IF CompatibleWithItem(Head(encs), s.item)
         THEN <<Head(encs)>> \o validEnchantments(s, Tail(encs))
         ELSE validEnchantments(s, Tail(encs))

applyRandomEnchant(s) ==
    LET valid == validEnchantments(s, getAllEnchantments) IN
    IF Len(valid) > 0
    THEN {[stack |-> WithEnchantments(s, valid[d + 1], 1),
           draws |-> <<[n |-> Len(valid), d |-> d]>>] : d \in Intn(Len(valid))}
    ELSE {[stack |-> s, draws |-> <<>>]}

\* The level chosen at lines 305-309 for an enchantment with max level max.
\* A slip of line 307: >= for >.
enchantLevelAtLeast(levels, max) ==
    IF levels >= 15 /\ max > 1
    THEN {[lvl |-> d + 1, draws |-> <<[n |-> max, d |-> d]>>] : d \in Intn(max)}
    ELSE {[lvl |-> 1, draws |-> <<>>]}

enchantLevel(levels, max) ==
    IF levels > 15 /\ max > 1
    THEN {[lvl |-> d + 1, draws |-> <<[n |-> max, d |-> d]>>] : d \in Intn(max)}
    ELSE {[lvl |-> 1, draws |-> <<>>]}

\* The loop of applyEnchantWithLevels over the catalog from encs on.
RECURSIVE enchantWithLevelsFrom(_, _, _)
enchantWithLevelsFrom(s, levels, encs) ==
    IF encs = <<>> THEN {[stack |-> s, draws |-> <<>>]}
    ELSE IF CompatibleWithItem(Head(encs), s.item) /\ levels > 0
         THEN {[stack |-> WithEnchantments(s, Head(encs), o.lvl), draws |-> o.draws] :
                 o \in enchantLevel(levels, MaxLevel(Head(encs)))}
         ELSE enchantWithLevelsFrom(s, levels, Tail(encs))

applyEnchantWithLevels(s, levels) ==
    enchantWithLevelsFrom(s, levels, getAllEnchantments)

----------------------------------------------------------------------------
\* type Function struct and type Entry struct, with Go's zero values for the
\* fields a function does not set.

Function(name, count, levels, id, enchants) ==
    [Function |-> name, Count |-> count, Levels |-> levels, ID |-> id, Enchants |-> enchants]

EnchantConfig(id, level) == [ID |-> id, Level |-> level]

Entry(type, name, weight, functions) ==
    [Type |-> type, Name |-> name, Weight |-> weight, Functions |-> functions]

Pool(rollsValue, entries) == [Rolls |-> rollsValue, Entries |-> entries]

----------------------------------------------------------------------------
\* The function pipeline of rollEntry.

\* First loop over e.Functions (lines 140-145): count starts at count and
\* every set_count assigns it. fn is the index of Head(fs) in the entry's list.
\* A slip: the first set_count wins (a break after the assignment).
RECURSIVE rollCountFirstWins(_, _, _, _)
rollCountFirstWins(fs, fn, count, draws) ==
    IF fs = <<>> THEN {[count |-> count, draws |-> draws]}
    ELSE IF Head(fs).Function = "set_count"
         THEN {[count |-> o.val, draws |-> draws \o Tag(o.draws, fn, "set_count")] :
                 o \in RollValue(Head(fs).Count)}
         ELSE rollCountFirstWins(Tail(fs), fn + 1, count, draws)

RECURSIVE rollCount(_, _, _, _)
rollCount(fs, fn, count, draws) ==
    IF fs = <<>> THEN {[count |-> count, draws |-> draws]}
    ELSE IF Head(fs).Function = "set_count"
         THEN UNION {rollCount(Tail(fs), fn + 1, o.val,
                               draws \o Tag(o.draws, fn, "set_count")) :
                       o \in RollValue(Head(fs).Count)}
         ELSE rollCount(Tail(fs), fn + 1, count, draws)

\* case "specific_enchants" leaving the loop after the first pair it attached.
applySpecificEnchantsFirstOnly(s, specs, fn, draws) ==
    LET resolvable == {k \in DOMAIN specs : enchantmentByName(specs[k].ID).ok} IN
    IF resolvable = {} THEN {[stack |-> s, draws |-> draws]}
    ELSE LET first == CHOOSE k \in resolvable : \A j \in resolvable : k <= j IN
         {[stack |-> WithEnchantments(s, enchantmentByName(specs[first].ID).enc, o.val),
           draws |-> draws \o Tag(o.draws, fn, "level")] :
            o \in RollValue(specs[first].Level)}

\* case "specific_enchants" (lines 155-160): the loop over f.Enchants.
RECURSIVE applySpecificEnchants(_, _, _, _)
applySpecificEnchants(s, specs, fn, draws) ==
    IF specs = <<>> THEN {[stack |-> s, draws |-> draws]}
    ELSE LET spec == Head(specs)
             found == enchantmentByName(spec.ID)
         IN IF found.ok
            THEN UNION {applySpecificEnchants(
                            WithEnchantments(s, found.enc, o.val), Tail(specs), fn,
                            draws \o Tag(o.draws, fn, "level")) :
                          o \in RollValue(spec.Level)}
            ELSE applySpecificEnchants(s, Tail(specs), fn, draws)

\* case "set_potion" with the count dropped: a slip of lines 164 and 166.
applySetPotionCountOne(s, id) ==
    LET found == potionByName(id) IN
    IF found.ok
    THEN IF IsPotion(s.item) THEN NewStack(Item("potion", found.pot), 1)
         ELSE IF IsSplashPotion(s.item) THEN NewStack(Item("splash_potion", found.pot), 1)
         ELSE s
    ELSE s

\* case "set_potion" (lines 161-168).
applySetPotion(s, id) ==
    LET found == potionByName(id) IN
    IF found.ok
    THEN IF IsPotion(s.item) THEN NewStack(Item("potion", found.pot), s.count)
         ELSE IF IsSplashPotion(s.item)
              THEN NewStack(Item("splash_potion", found.pot), s.count)
         ELSE s
    ELSE s

\* The switch of lines 150-169 on one function: the possible
\* (stack, draws, arg), arg being the levels value rolled at line 154.
applyFunction(s, f, fn) ==
    CASE f.Function = "enchant_randomly" ->
           {[stack |-> o.stack, draws |-> Tag(o.draws, fn, "pick"), arg |-> 0] :
              o \in applyRandomEnchant(s)}
      [] f.Function = "enchant_with_levels" ->
           UNION {{[stack |-> o.stack,
                    draws |-> Tag(l.draws, fn, "levels") \o Tag(o.draws, fn, "lvl"),
                    arg |-> l.val] : o \in applyEnchantWithLevels(s, l.val)} :
                    l \in RollValue(f.Levels)}
      [] f.Function = "specific_enchants" ->
           {[stack |-> o.stack, draws |-> o.draws, arg |-> 0] :
              o \in applySpecificEnchants(s, f.Enchants, fn, <<>>)}
      [] f.Function = "set_potion" ->
           {[stack |-> applySetPotion(s, f.ID), draws |-> <<>>, arg |-> 0]}
      [] OTHER -> {[stack |-> s, draws |-> <<>>, arg |-> 0]}

\* What the second loop hands to the function at index fn: the stack the
\* previous function produced. A slip: every function gets the minted stack.
pipelineInputBase(base, s) == base

pipelineInput(base, s) == s

\* Second loop over e.Functions (lines 149-170). steps records, per function,
\* the stack it received and the stack it produced.
RECURSIVE applyFunctions(_, _, _, _, _, _)
applyFunctions(base, s, fs, fn, draws, steps) ==
    IF fs = <<>> THEN {[stack |-> s, draws |-> draws, steps |-> steps]}
    ELSE LET in == pipelineInput(base, s) IN
         UNION {applyFunctions(base, o.stack, Tail(fs), fn + 1, draws \o o.draws,
                               Append(steps, [fn |-> fn, in |-> in, out |-> o.stack,
                                              arg |-> o.arg])) :
                  o \in applyFunction(in, Head(fs), fn)}

----------------------------------------------------------------------------
\* func (p *Pool) rollEntry() (item.Stack, bool)

\* The weight added to totalWeight at lines 114-117 with no normalisation.
summedWeightRaw(e) == e.Weight

\* The weight added to totalWeight at lines 114-117: the loop variable e is
\* set to 1 when it is 0, and then summed.
summedWeight(e) == IF e.Weight = 0 THEN 1 ELSE e.Weight

RECURSIVE totalWeightOf(_)
totalWeightOf(entries) ==
    IF entries = <<>> THEN 0
    ELSE summedWeight(Head(entries)) + totalWeightOf(Tail(entries))

\* A first loop that writes through to the slice (p.Entries[i].Weight = 1).
entriesAfterSumInPlace(entries) ==
    [k \in DOMAIN entries |->
        IF entries[k].Weight = 0 THEN [entries[k] EXCEPT !.Weight = 1] ELSE entries[k]]

\* p.Entries after the first loop: "for _, e := range p.Entries" copies each
\* element into e, so the assignment e.Weight = 1 never reaches the slice.
entriesAfterSum(entries) == entries

\* The weight added to current at line 127: that of the slice element.
walkedWeight(e) == e.Weight

\* Lines 124-128: the index of the first entry with r < current, 0 if the
\* loop ends without one. k is the index of Head(entries).
RECURSIVE walk(_, _, _, _)
walk(entries, r, k, current) ==
    IF entries = <<>> THEN 0
    ELSE LET c == current + walkedWeight(Head(entries)) IN
         IF r < c THEN k ELSE walk(Tail(entries), r, k + 1, c)

\* Line 129 without the type check.
entryIsItemAny(e) == TRUE

\* Line 129.
entryIsItem(e) == e.Type = "item"

\* Lines 133-134.
resolveItem(e) ==
    LET name == TrimPrefix(e.Name, "minecraft:") IN
    ItemByName(<<"minecraft:">> \o name)

\* The result record of one rollEntry call that produced no stack.
NoStack(total, drew, r, sel, draws, after) ==
    [ok |-> FALSE, stack |-> NullStack, totalWeight |-> total, drew |-> drew,
     r |-> r, sel |-> sel, minted |-> 0, draws |-> draws, steps |-> <<>>,
     entries |-> after]

\* Lines 126-174 for one value of r.
rollEntryWith(entries, total, r) ==
    LET sel == walk(entries, r, 1, 0)
        wdraw == Tag(<<[n |-> total, d |-> r]>>, 0, "weight")
    IN IF sel = 0 THEN {NoStack(total, TRUE, r, 0, wdraw, entries)}
       ELSE LET e == entries[sel]
                it == resolveItem(e)
            IN IF ~entryIsItem(e) THEN {NoStack(total, TRUE, r, sel, wdraw, entries)}
               ELSE IF ~it.ok THEN {NoStack(total, TRUE, r, sel, wdraw, entries)}
               ELSE UNION {
                     {[ok |-> TRUE, stack |-> o.stack, totalWeight |-> total,
                       drew |-> TRUE, r |-> r, sel |-> sel, minted |-> c.count,
                       draws |-> wdraw \o c.draws \o o.draws, steps |-> o.steps,
                       entries |-> entries] :
                        o \in applyFunctions(NewStack(it.item, c.count),
                                             NewStack(it.item, c.count),
                                             e.Functions, 1, <<>>, <<>>)} :
                     c \in rollCount(e.Functions, 1, 1, <<>>)}

rollEntry(p) ==
    LET total == totalWeightOf(p.Entries)
        after == entriesAfterSum(p.Entries)
    IN IF total <= 0
       THEN {NoStack(total, FALSE, -1, 0, <<>>, after)}
       ELSE UNION {rollEntryWith(after, total, r) : r \in Intn(total)}

----------------------------------------------------------------------------
\* Inputs.

MaxFuncs == 2
MaxRolls == 2

RECURSIVE SeqsUpTo(_, _)
SeqsUpTo(S, n) ==
    IF n = 0 THEN {<<>>}
    ELSE LET shorter == SeqsUpTo(S, n - 1) IN
         shorter \cup {Append(q, x) : q \in shorter, x \in S}

NoValue == Value(0, 0)

Functions ==
    {Function("set_count", v, NoValue, <<>>, <<>>) :
        v \in {Value(3, 3), Value(1, 2), Value(2, 1)}}
    \cup {Function("enchant_with_levels", NoValue, v, <<>>, <<>>) :
        v \in {Value(-1, 1), Value(15, 16)}}
    \cup {Function("set_potion", NoValue, NoValue, id, <<>>) :
        id \in {<<"healing">>, <<"minecraft:", "Healing">>, <<"Minecraft:", "healing">>}}
    \cup {Function("specific_enchants", NoValue, NoValue, <<>>, es) :
        es \in {<<EnchantConfig(<<"sharpness">>, Value(2, 2)),
                  EnchantConfig(<<"no_such_enchant">>, Value(1, 1))>>,
                <<EnchantConfig(<<"minecraft:", "Sharpness">>, Value(1, 2)),
                  EnchantConfig(<<"knockback">>, Value(1, 1))>>}}
    \cup {Function("enchant_randomly", NoValue, NoValue, <<>>, <<>>),
          Function("set_damage", NoValue, NoValue, <<>>, <<>>)}

\* Pools that vary the weights, types and names of their entries.
WeightEntries ==
    {Entry(t, n, w, <<>>) :
        t \in {"item", "loot_table"},
        n \in {<<"stick">>, <<"Stick">>},
        w \in (-NegWeight) .. MaxWeight}

\* Pools of one entry that vary its item and its functions.
FunctionEntries ==
    {Entry("item", n, 1, fs) :
        n \in {<<"minecraft:", "stick">>, <<"diamond_sword">>, <<"compass">>,
               <<"potion">>, <<"splash_potion">>},
        fs \in SeqsUpTo(Functions, MaxFuncs)}

RollPools ==
    {Pool(Value(1, 1), es) : es \in SeqsUpTo(WeightEntries, MaxEntries)}
    \cup {Pool(Value(1, 1), <<e>>) : e \in FunctionEntries}

ValueRanges == {Value(a, b) : a, b \in (-MaxVal) .. MaxVal}

RollRanges ==
    {Value(0, 0), Value(MaxRolls, MaxRolls), Value(1, MaxRolls), Value(-1, -1)}

GenEntries ==
    {<<>>,
     <<Entry("item", <<"stick">>, 1,
             <<Function("set_count", Value(2, 2), NoValue, <<>>, <<>>)>>)>>,
     <<Entry("loot_table", <<"stick">>, 1, <<>>)>>,
     <<Entry("item", <<"Stick">>, 1, <<>>),
       Entry("item", <<"minecraft:", "diamond_sword">>, 1, <<>>)>>,
     <<Entry("item", <<"stick">>, 0, <<>>)>>}

GenPools == {Pool(v, es) : v \in RollRanges, es \in GenEntries}

Tables == SeqsUpTo(GenPools, MaxPools)

----------------------------------------------------------------------------
\* Direct calls of RollValue.

NoRet == [ok |-> FALSE]
NoSource == [found |-> FALSE, doc |-> [k |-> "null"]]

InitValue ==
    /\ range \in ValueRanges
    /\ pc = "value"
    /\ table = <<>> /\ pi = 0 /\ i = 0 /\ rolls = 0
    /\ stacks = <<>> /\ rolled = <<>> /\ calls = <<>>
    /\ ret = NoRet
    /\ source = NoSource /\ loadErr = "unset"

CallRollValue ==
    /\ pc \in {"value", "valueDone"}
    /\ \E o \in RollValue(range) : ret' = o
    /\ pc' = "valueDone"
    /\ UNCHANGED <<table, pi, i, rolls, stacks, rolled, calls, range, source, loadErr>>

SpecValue == InitValue /\ [][CallRollValue]_vars

----------------------------------------------------------------------------
\* Direct calls of rollEntry on a pool.

InitRoll ==
    /\ table \in {<<p>> : p \in RollPools}
    /\ pc = "entry"
    /\ pi = 1 /\ i = 0 /\ rolls = 0
    /\ stacks = <<>> /\ rolled = <<>> /\ calls = <<>>
    /\ ret = NoRet
    /\ range = NoValue
    /\ source = NoSource /\ loadErr = "unset"

CallRollEntry ==
    /\ pc \in {"entry", "entryDone"}
    /\ \E o \in rollEntry(table[pi]) :
         /\ ret' = o
         /\ table' = [table EXCEPT ![pi].Entries = o.entries]
    /\ pc' = "entryDone"
    /\ UNCHANGED <<pi, i, rolls, stacks, rolled, calls, range, source, loadErr>>

SpecRoll == InitRoll /\ [][CallRollEntry]_vars

----------------------------------------------------------------------------
\* func (t LootTable) Generate() []item.Stack

Init ==
    /\ table \in Tables
    /\ pc = "idle"
    /\ pi = 0 /\ i = 0 /\ rolls = 0
    /\ stacks = <<>> /\ rolled = <<>> /\ calls = <<>>
    /\ ret = NoRet
    /\ range = NoValue
    /\ source = NoSource /\ loadErr = "unset"

\* Line 45 and the start of the range loop of line 46.
GenerateStart ==
    /\ pc \in {"idle", "done"}
    /\ pc' = "pool"
    /\ pi' = 1 /\ i' = 0 /\ rolls' = 0
    /\ stacks' = <<>> /\ rolled' = <<>> /\ calls' = <<>>
    /\ ret' = NoRet
    /\ UNCHANGED <<table, range, source, loadErr>>

\* Line 47: rolls := RollValue(p.Rolls), and i := 0 of line 48.
RollRolls ==
    /\ pc = "pool" /\ pi <= Len(table)
    /\ \E o \in RollValue(table[pi].Rolls) :
         /\ rolls' = o.val
         /\ rolled' = Append(rolled, o.val)
    /\ i' = 0
    /\ pc' = "roll"
    /\ UNCHANGED <<table, pi, stacks, calls, ret, range, source, loadErr>>

\* The loop condition of line 48, off by one.
moreRollsInclusive(k, n) == k <= n

\* The loop condition of line 48.
moreRolls(k, n) == k < n

\* Lines 49-51 and the i++ of line 48.
RollOnce ==
    /\ pc = "roll" /\ moreRolls(i, rolls)
    /\ \E o \in rollEntry(table[pi]) :
         /\ ret' = o
         /\ table' = [table EXCEPT ![pi].Entries = o.entries]
         /\ stacks' = IF o.ok THEN Append(stacks, o.stack) ELSE stacks
         /\ calls' = Append(calls, [pool |-> pi, ok |-> o.ok, sel |-> o.sel,
                                    stack |-> o.stack])
    /\ i' = i + 1
    /\ UNCHANGED <<pc, pi, rolls, rolled, range, source, loadErr>>

\* The inner loop ends: the next pool of line 46.
NextPool ==
    /\ pc = "roll" /\ ~moreRolls(i, rolls)
    /\ pi' = pi + 1
    /\ pc' = "pool"
    /\ UNCHANGED <<table, i, rolls, stacks, rolled, calls, ret, range, source, loadErr>>

\* Line 54.
GenerateReturn ==
    /\ pc = "pool" /\ pi > Len(table)
    /\ pc' = "done"
    /\ UNCHANGED <<table, pi, i, rolls, stacks, rolled, calls, ret, range, source, loadErr>>

Next ==
    \/ GenerateStart
    \/ RollRolls
    \/ RollOnce
    \/ NextPool
    \/ GenerateReturn

Spec == Init /\ [][Next]_vars

----------------------------------------------------------------------------
\* Properties of rollEntry, checked under SpecRoll.

Rolled == pc = "entryDone"
ThePool == table[1]
NonNegative(entries) == \A k \in DOMAIN entries : entries[k].Weight >= 0
AtLeastOne(w) == IF w > 1 THEN w ELSE 1

\* The first entry whose cumulative sum of max(weight, 1) exceeds r.
RECURSIVE firstExceeding(_, _, _, _)
firstExceeding(entries, r, k, current) ==
    IF entries = <<>> THEN 0
    ELSE LET c == current + AtLeastOne(Head(entries).Weight) IN
         IF r < c THEN k ELSE firstExceeding(Tail(entries), r, k + 1, c)

\* C1: on a pool with at least one entry and only non-negative weights every
\* draw r selects an entry, the first one in declaration order whose
\* cumulative sum of max(weight, 1) exceeds r.
C1_SelectsByNormalisedWeight ==
    (Rolled /\ Len(ThePool.Entries) >= 1 /\ NonNegative(ThePool.Entries)) =>
        /\ ret.drew
        /\ ret.r \in 0 .. (ret.totalWeight - 1)
        /\ ret.sel # 0
        /\ ret.sel = firstExceeding(ThePool.Entries, ret.r, 1, 0)

\* The draws of the entry's functions, without the weight draw.
IsFunctionDraw(d) == d.fn > 0
IsCountDraw(d) == d.what = "set_count"
IsOtherDraw(d) == d.fn > 0 /\ d.what # "set_count"
FunctionDraws == SelectSeq(ret.draws, IsFunctionDraw)
InDeclaredOrder(ds) ==
    \A a, b \in DOMAIN ds : a < b => ds[a].fn <= ds[b].fn
SelFunctions == ThePool.Entries[ret.sel].Functions
HasSetCount(fs) == \E k \in DOMAIN fs : fs[k].Function = "set_count"

\* Every function is a step, in declared order, and receives the stack the
\* previous step produced, the first one the minted stack.
StepsChained ==
    /\ Len(ret.steps) = Len(SelFunctions)
    /\ \A k \in DOMAIN ret.steps :
         /\ ret.steps[k].fn = k
         /\ ret.steps[k].in =
              IF k = 1
              THEN NewStack(resolveItem(ThePool.Entries[ret.sel]).item, ret.minted)
              ELSE ret.steps[k - 1].out
    /\ ret.stack =
         IF ret.steps = <<>>
         THEN NewStack(resolveItem(ThePool.Entries[ret.sel]).item, ret.minted)
         ELSE ret.steps[Len(ret.steps)].out

\* C2 as stated: the base stack is minted with quantity 1, the functions run
\* in declared order each on the previous one's stack, and the draws of the
\* functions are consumed in the declared order of the functions.
C2_DeclaredOrderAsStated ==
    (Rolled /\ ret.ok) =>
        /\ ret.minted = 1
        /\ StepsChained
        /\ InDeclaredOrder(FunctionDraws)

\* C2 amended: the set_count functions are rolled first, in declared order,
\* and the base stack is minted with the resulting quantity (1 without a
\* set_count); then the functions run in declared order, each on the stack
\* of the previous one; the draws are the weight draw, then those of the
\* set_count functions in declared order, then those of the other functions
\* in declared order.
C2_CountFirstThenDeclaredOrder ==
    (Rolled /\ ret.ok) =>
        /\ ~HasSetCount(SelFunctions) => ret.minted = 1
        /\ StepsChained
        /\ ret.draws = SelectSeq(ret.draws, LAMBDA d : d.fn = 0)
                         \o SelectSeq(ret.draws, IsCountDraw)
                         \o SelectSeq(ret.draws, IsOtherDraw)
        /\ InDeclaredOrder(SelectSeq(ret.draws, IsCountDraw))
        /\ InDeclaredOrder(SelectSeq(ret.draws, IsOtherDraw))

\* C2 witness: functions [enchant_with_levels, set_count], both drawing, with
\* the count draw taken before the levels draw.
C2_Witness ==
    /\ Rolled /\ ret.ok
    /\ Len(SelFunctions) = 2
    /\ SelFunctions[1].Function = "enchant_with_levels"
    /\ SelFunctions[2].Function = "set_count"
    /\ Len(FunctionDraws) >= 2
    /\ FunctionDraws[1].fn = 2 /\ FunctionDraws[1].what = "set_count"
    /\ FunctionDraws[2].fn = 1 /\ FunctionDraws[2].what = "levels"
    /\ ret.steps[2].in = ret.steps[1].out
    /\ ret.steps[1].out # ret.steps[1].in


\* The steps of the last call that ran the function named name.
StepsOf(name) ==
    IF Rolled /\ ret.ok
    THEN {k \in DOMAIN ret.steps : SelFunctions[k].Function = name}
    ELSE {}

HasCompatible(s) == validEnchantments(s, getAllEnchantments) # <<>>
FirstCompatible(s) == validEnchantments(s, getAllEnchantments)[1]

\* The step attached exactly one enchantment, the first compatible one, at a
\* level in levelSet, and changed nothing else.
AttachedFirstCompatible(step, levelSet) ==
    \E lvl \in levelSet :
        step.out = [step.in EXCEPT !.enchantments =
                       Append(@, [t |-> FirstCompatible(step.in), lvl |-> lvl])]

\* C3 as stated: on a stack with a compatible enchantment,
\* enchant_with_levels always attaches the first compatible one and no
\* other, at level 1 for every levels value <= 15 (0 and negative values
\* included) and at a level in 1..maxLevel for levels > 15 and maxLevel > 1.
C3_AlwaysAttachesAsStated ==
    \A k \in StepsOf("enchant_with_levels") :
        LET step == ret.steps[k] IN
        HasCompatible(step.in) =>
            LET max == MaxLevel(FirstCompatible(step.in)) IN
            /\ step.arg <= 15 => AttachedFirstCompatible(step, {1})
            /\ (step.arg > 15 /\ max > 1) => AttachedFirstCompatible(step, 1 .. max)

\* C3 amended: on a stack with a compatible enchantment, enchant_with_levels
\* leaves the stack unchanged when the rolled levels value is <= 0; for a
\* levels value >= 1 it attaches the first compatible enchantment in catalog
\* order and no other, at level 1 when levels <= 15 (or maxLevel = 1) and at
\* a level in 1..maxLevel when levels > 15 and maxLevel > 1.
C3_AttachesFirstCompatibleWhenPositive ==
    \A k \in StepsOf("enchant_with_levels") :
        LET step == ret.steps[k] IN
        /\ step.arg <= 0 => step.out = step.in
        /\ HasCompatible(step.in) =>
            LET max == MaxLevel(FirstCompatible(step.in)) IN
            /\ (step.arg >= 1 /\ step.arg <= 15) => AttachedFirstCompatible(step, {1})
            /\ (step.arg > 15 /\ max > 1) => AttachedFirstCompatible(step, 1 .. max)
            /\ (step.arg > 15 /\ max <= 1) => AttachedFirstCompatible(step, {1})
        /\ ~HasCompatible(step.in) => step.out = step.in

\* C3 witness: a levels value of exactly 15 on a sword attaches sharpness at
\* level 1, after another run of the function left the stack alone at a
\* levels value <= 0.
C3_Witness ==
    \E k, j \in StepsOf("enchant_with_levels") :
        /\ ret.steps[j].arg <= 0 /\ HasCompatible(ret.steps[j].in)
        /\ ret.steps[j].out = ret.steps[j].in
        /\ ret.steps[k].arg = 15
        /\ ret.steps[k].in.item.kind = "diamond_sword"
        /\ ret.steps[k].out.enchantments =
             Append(ret.steps[k].in.enchantments, [t |-> "sharpness", lvl |-> 1])

\* C4 as stated: totalWeight <= 0 only for an empty entries list, where the
\* roll returns ok = false without a draw; every pool with at least one
\* entry, whatever its weights, has a positive totalWeight and draws.
C4_PositiveTotalAsStated ==
    Rolled =>
        /\ ret.totalWeight <= 0 => ThePool.Entries = <<>>
        /\ ThePool.Entries = <<>> => (~ret.ok /\ ~ret.drew)
        /\ ThePool.Entries # <<>> => (ret.totalWeight > 0 /\ ret.drew)

\* C4 amended: whenever totalWeight <= 0 the roll returns ok = false without
\* failing and without a draw, which is the case of an empty entries list;
\* among the pools with only non-negative weights it is the only such case:
\* every pool with at least one entry and no negative weight has a positive
\* totalWeight (a weight of 0 counting as 1) and draws once, in
\* [0, totalWeight).
C4_PositiveTotalForNonNegativeWeights ==
    Rolled =>
        /\ ret.totalWeight <= 0 =>
             (~ret.ok /\ ~ret.drew /\ ret.draws = <<>> /\ ret.stack = NullStack)
        /\ ThePool.Entries = <<>> => ret.totalWeight = 0
        /\ (ThePool.Entries # <<>> /\ NonNegative(ThePool.Entries)) =>
             /\ ret.totalWeight > 0
             /\ ret.totalWeight >= Len(ThePool.Entries)
             /\ ret.drew
             /\ ret.draws # <<>> /\ ret.draws[1].what = "weight"
             /\ ret.draws[1].n = ret.totalWeight
             /\ ret.r \in 0 .. (ret.totalWeight - 1)

\* C4 witness: a pool whose entries all have weight 0 was rolled with a draw.
C4_Witness ==
    /\ Rolled
    /\ Len(ThePool.Entries) = 2
    /\ \A k \in DOMAIN ThePool.Entries : ThePool.Entries[k].Weight = 0
    /\ ret.totalWeight = 2 /\ ret.drew


\* The index of the last set_count of fs (0 without one).
LastSetCount(fs) ==
    LET ks == {k \in DOMAIN fs : fs[k].Function = "set_count"} IN
    IF ks = {} THEN 0 ELSE CHOOSE k \in ks : \A j \in ks : j <= k

\* q is the roll of range v made by function fn in the last call: v.Min for
\* a range with Max <= Min, else v.Min plus the draw that function took.
IsRollOf(q, v, fn) ==
    IF v.Max <= v.Min
    THEN q = v.Min
    ELSE /\ q \in v.Min .. v.Max
         /\ \E k \in DOMAIN ret.draws :
              /\ ret.draws[k].fn = fn /\ ret.draws[k].what = "set_count"
              /\ ret.draws[k].n = v.Max - v.Min + 1
              /\ q = v.Min + ret.draws[k].d

\* C9: the quantity of a generated stack is 1 when the selected entry has
\* no set_count, and otherwise the roll of the count range of the last
\* set_count of its function list; with count = {3, 3} it is 3.
C9_QuantityIsLastSetCount ==
    (Rolled /\ ret.ok) =>
        LET last == LastSetCount(SelFunctions) IN
        IF last = 0
        THEN ret.stack.count = 1
        ELSE /\ IsRollOf(ret.stack.count, SelFunctions[last].Count, last)
             /\ SelFunctions[last].Count = Value(3, 3) => ret.stack.count = 3

\* C9 witness: two set_count functions, the first fixed at 3 and the last
\* drawing from {1, 2}: the quantity is the last one's draw.
C9_Witness ==
    /\ Rolled /\ ret.ok
    /\ Len(SelFunctions) = 2
    /\ SelFunctions[1].Function = "set_count" /\ SelFunctions[1].Count = Value(3, 3)
    /\ SelFunctions[2].Function = "set_count" /\ SelFunctions[2].Count = Value(1, 2)
    /\ ret.stack.count = 2

IsContainer(it) == it.kind \in {"potion", "splash_potion"}

\* C10: set_potion leaves the stack unchanged when its item is neither a
\* potion nor a splash potion, and when the identifier does not resolve;
\* otherwise the result is the same container kind with the resolved
\* variant and the quantity the stack had.
C10_SetPotionKeepsKindAndQuantity ==
    \A k \in StepsOf("set_potion") :
        LET step == ret.steps[k]
            found == potionByName(SelFunctions[k].ID)
        IN /\ (~IsContainer(step.in.item) \/ ~found.ok) => step.out = step.in
           /\ (IsContainer(step.in.item) /\ found.ok) =>
                /\ step.out.item.kind = step.in.item.kind
                /\ step.out.item.Type = found.pot
                /\ step.out.count = step.in.count

\* C10 witness: a splash potion of quantity 3 became a splash potion of
\* healing of quantity 3 through the identifier "minecraft:Healing".
C10_Witness ==
    \E k \in StepsOf("set_potion") :
        /\ SelFunctions[k].ID = <<"minecraft:", "Healing">>
        /\ ret.steps[k].in.item = Item("splash_potion", "water")
        /\ ret.steps[k].in.count = 3
        /\ ret.steps[k].out.item = Item("splash_potion", "healing")
        /\ ret.steps[k].out.count = 3

----------------------------------------------------------------------------
\* Properties of RollValue, checked under SpecValue.

\* C8: RollValue(v) is v.Min whenever v.Max <= v.Min; for v.Max > v.Min it
\* lies in v.Min..v.Max, and every value of that interval is returned for
\* some draw.
C8_RollValueRange ==
    /\ pc = "valueDone" =>
         /\ range.Max <= range.Min => (ret.val = range.Min /\ ret.draws = <<>>)
         /\ range.Max > range.Min => ret.val \in range.Min .. range.Max
    /\ pc \in {"value", "valueDone"} =>
         /\ range.Max > range.Min =>
              {o.val : o \in RollValue(range)} = range.Min .. range.Max
         /\ range.Max <= range.Min =>
              {o.val : o \in RollValue(range)} = {range.Min}

\* C8 witness: a range with Max > Min returned its Max.
C8_Witness ==
    /\ pc = "valueDone"
    /\ range.Max > range.Min + 1
    /\ ret.val = range.Max


----------------------------------------------------------------------------
\* Properties of LootTable.Generate, checked under Spec.

Done == pc = "done"
OkCall(c) == c.ok
CallsOf(j) == {k \in DOMAIN calls : calls[k].pool = j}
OkCallsOf(j) == {k \in DOMAIN calls : calls[k].pool = j /\ calls[k].ok}
AtLeastZero(n) == IF n > 0 THEN n ELSE 0
OkCalls == SelectSeq(calls, OkCall)

\* A pool with fixed rolls and a single resolvable entry of type "item" and
\* weight 1.
IsSureDrop(p) ==
    /\ p.Rolls.Min = p.Rolls.Max
    /\ Len(p.Entries) = 1
    /\ p.Entries[1].Type = "item" /\ p.Entries[1].Weight = 1
    /\ resolveItem(p.Entries[1]).ok

\* C5: Generate handles the pools in declaration order, rolls each pool's
\* range once to get n, makes exactly n entry selections for it (none for
\* n <= 0) and appends every successful stack in the order produced; a pool
\* with fixed rolls n and a single resolvable "item" entry of weight 1
\* contributes exactly n stacks, and an earlier pool's stacks come first.
C5_GenerateRollsEachPool ==
    /\ pc \in {"pool", "roll", "done"} =>
         /\ stacks = [k \in DOMAIN OkCalls |-> OkCalls[k].stack]
         /\ \A a, b \in DOMAIN calls : a < b => calls[a].pool <= calls[b].pool
         /\ \A j \in DOMAIN rolled :
              \E o \in RollValue(table[j].Rolls) : rolled[j] = o.val
    /\ Done =>
         /\ Len(rolled) = Len(table)
         /\ \A j \in DOMAIN table :
              /\ Cardinality(CallsOf(j)) = AtLeastZero(rolled[j])
              /\ IsSureDrop(table[j]) =>
                   Cardinality(OkCallsOf(j)) = AtLeastZero(table[j].Rolls.Min)

\* C5 witness: a table of two pools, the first a sure drop with rolls 2,
\* returned the first pool's two stacks followed by a stack of the second.
C5_Witness ==
    /\ Done
    /\ Len(table) = 2
    /\ IsSureDrop(table[1]) /\ table[1].Rolls = Value(2, 2)
    /\ Len(stacks) = 3
    /\ calls[1].pool = 1 /\ calls[2].pool = 1
    /\ stacks[1] = calls[1].stack /\ stacks[2] = calls[2].stack
    /\ stacks[1].count = 2
    /\ stacks[3].item.kind = "diamond_sword"

\* The entry a call selected produces nothing: not of type "item", or an
\* item identifier the item registry does not resolve.
SelectedCannotDrop(c) ==
    /\ c.sel # 0
    /\ \/ table[c.pool].Entries[c.sel].Type # "item"
       \/ ~resolveItem(table[c.pool].Entries[c.sel]).ok

\* C6: a roll whose selected entry is not of type "item", or names an
\* unresolved item, contributes no stack and tries no other entry, and the
\* remaining rolls and pools of the call still run; a pool whose single
\* entry is not of type "item" yields no stack.
C6_FailedRollIsLocal ==
    /\ pc \in {"pool", "roll", "done"} =>
         /\ \A k \in DOMAIN calls :
              /\ SelectedCannotDrop(calls[k]) =>
                   (~calls[k].ok /\ calls[k].stack = NullStack)
              /\ (calls[k].ok /\ calls[k].sel # 0) =>
                   calls[k].stack.item.kind =
                     resolveItem(table[calls[k].pool].Entries[calls[k].sel]).item.kind
         /\ Len(stacks) = Len(OkCalls)
         /\ \A j \in DOMAIN table :
              (Len(table[j].Entries) = 1 /\ table[j].Entries[1].Type # "item")
                 => OkCallsOf(j) = {}
    /\ Done =>
         /\ Len(rolled) = Len(table)
         /\ \A j \in DOMAIN table : Cardinality(CallsOf(j)) = AtLeastZero(rolled[j])

\* C6 witness: the first pool's rolls selected an entry that is not an
\* item, and the second pool still produced its stacks.
C6_Witness ==
    /\ Done
    /\ Len(table) = 2
    /\ Len(table[1].Entries) = 1
    /\ table[1].Entries[1].Type # "item"
    /\ Cardinality(CallsOf(1)) = 2
    /\ \A k \in CallsOf(1) : calls[k].sel = 1 /\ ~calls[k].ok
    /\ Cardinality(OkCallsOf(2)) = 2
    /\ Len(stacks) = 2

\* C7: no step of Generate or rollEntry changes the LootTable: rolls
\* ranges, entry types, names, weights (0 included) and functions.
C7_TableNeverMutated == [][table' = table]_vars

\* C7 witness: a Generate call is over that rolled a pool whose entry has
\* the stored weight 0, and the weight is still 0.
C7_Witness ==
    /\ Done
    /\ \E j \in DOMAIN table :
         /\ CallsOf(j) # {}
         /\ Len(table[j].Entries) = 1
         /\ table[j].Entries[1].Weight = 0

----------------------------------------------------------------------------
\* Properties of specific_enchants, checked under SpecRoll.

Resolves(spec) == enchantmentByName(spec.ID).ok
RollsOf(v) == IF v.Max <= v.Min THEN {v.Min} ELSE v.Min .. v.Max

\* C11: specific_enchants attaches, in declared order, one enchantment for
\* every declared {id, level} pair whose id resolves in the enchantment
\* registry, after the enchantments already on the stack, and skips every
\* pair whose id does not resolve without affecting the other pairs or the
\* roll.
C11_SpecificEnchantsAttachResolvable ==
    \A k \in StepsOf("specific_enchants") :
        LET step == ret.steps[k]
            wanted == SelectSeq(SelFunctions[k].Enchants, Resolves)
            before == Len(step.in.enchantments)
        IN /\ step.out.item = step.in.item
           /\ step.out.count = step.in.count
           /\ Len(step.out.enchantments) = before + Len(wanted)
           /\ SubSeq(step.out.enchantments, 1, before) = step.in.enchantments
           /\ \A j \in DOMAIN wanted :
                /\ step.out.enchantments[before + j].t =
                     enchantmentByName(wanted[j].ID).enc
                /\ step.out.enchantments[before + j].lvl \in RollsOf(wanted[j].Level)

\* C11 witness: on a sword that enchant_randomly had given knockback, the
\* pairs (sharpness, no_such_enchant) added sharpness at level 2 and nothing
\* for the unknown id.
C11_Witness ==
    /\ Rolled /\ ret.ok
    /\ StepsOf("specific_enchants") = {2}
    /\ Len(SelFunctions[2].Enchants) = 2
    /\ SelFunctions[2].Enchants[1].ID = <<"sharpness">>
    /\ SelFunctions[2].Enchants[2].ID = <<"no_such_enchant">>
    /\ ret.steps[2].in.enchantments = <<[t |-> "knockback", lvl |-> 1]>>
    /\ ret.stack.enchantments =
         <<[t |-> "knockback", lvl |-> 1], [t |-> "sharpness", lvl |-> 2]>>

----------------------------------------------------------------------------
\* Table parsing: LoadTable and the decoding json.Unmarshal does into the
\* structs of lines 59-90. A JSON value is a record tagged k: "int", "float",
\* "str", "null", "arr" (elements e), "obj" (members f), or "invalid" for
\* bytes that are no JSON text. A decoder returns the value it stored and
\* the first error met ("nil" for none); after a type error the decoding of
\* the other members goes on, as in encoding/json.

JInt(n) == [k |-> "int", n |-> n]
JFloat == [k |-> "float"]
JStr(str) == [k |-> "str", s |-> str]
JNull == [k |-> "null"]
JArr(es) == [k |-> "arr", e |-> es]
JObj(members) == [k |-> "obj", f |-> members]
JInvalid == [k |-> "invalid"]
Absent == [k |-> "absent"]
Decoded(val, err) == [val |-> val, err |-> err]
firstErr(a, b) == IF a # "nil" THEN a ELSE b

\* Member names match the struct tags exactly or, failing that, regardless
\* of case.
foldKey(key) ==
    CASE key = "Min" -> "min"
      [] key = "Max" -> "max"
      [] key = "Pools" -> "pools"
      [] OTHER -> key

field(o, name) ==
    LET folded == {x \in DOMAIN o.f : foldKey(x) = name} IN
    IF name \in DOMAIN o.f THEN o.f[name]
    ELSE IF folded # {} THEN o.f[CHOOSE x \in folded : TRUE]
    ELSE Absent

\* json.Unmarshal into an int that holds 0 (lines 93-94, and the fields of m).
decodeInt(j) ==
    CASE j.k = "int" -> Decoded(j.n, "nil")
      [] j.k \in {"null", "absent"} -> Decoded(0, "nil")
      [] OTHER -> Decoded(0, "type")

\* json.Unmarshal into a string that holds zero.
decodeString(j, zero) ==
    CASE j.k = "str" -> Decoded(j.s, "nil")
      [] j.k \in {"null", "absent"} -> Decoded(zero, "nil")
      [] OTHER -> Decoded(zero, "type")

\* json.Unmarshal(data, &m) of lines 98-102.
decodeMinMax(data) ==
    CASE data.k = "obj" ->
           LET min == decodeInt(field(data, "min"))
               max == decodeInt(field(data, "max"))
           IN Decoded(Value(min.val, max.val), firstErr(min.err, max.err))
      [] data.k = "null" -> Decoded(NoValue, "nil")
      [] OTHER -> Decoded(NoValue, "type")

\* UnmarshalJSON handing the second error on: return err for return nil.
UnmarshalJSONStrict(v, data) ==
    LET asInt == decodeInt(data)
        m == decodeMinMax(data)
    IN IF asInt.err = "nil" THEN Decoded(Value(asInt.val, asInt.val), "nil")
       ELSE IF m.err = "nil" THEN Decoded(m.val, "nil")
       ELSE Decoded(v, m.err)

\* func (v *Value) UnmarshalJSON(data []byte) error: v after the call and
\* the error returned.
UnmarshalJSON(v, data) ==
    LET asInt == decodeInt(data)
        m == decodeMinMax(data)
    IN IF asInt.err = "nil" THEN Decoded(Value(asInt.val, asInt.val), "nil")
       ELSE IF m.err = "nil" THEN Decoded(m.val, "nil")
       ELSE Decoded(v, "nil")

\* A struct field of type Value: UnmarshalJSON on the zero Value of the
\* fresh struct, not called for a missing member.
decodeValue(j) ==
    IF j.k = "absent" THEN Decoded(NoValue, "nil") ELSE UnmarshalJSON(NoValue, j)

\* The elements of a JSON array, none for any other value.
elements(j) == IF j.k = "arr" THEN j.e ELSE <<>>

\* A slice field: decoded holds what decoding each element of j gave.
decodeSlice(j, decoded) ==
    CASE j.k = "arr" ->
           LET bad == {n \in DOMAIN decoded : decoded[n].err # "nil"} IN
           Decoded([n \in DOMAIN decoded |-> decoded[n].val],
                   IF bad = {} THEN "nil"
                   ELSE decoded[CHOOSE n \in bad : \A x \in bad : n <= x].err)
      [] j.k \in {"null", "absent"} -> Decoded(<<>>, "nil")
      [] OTHER -> Decoded(<<>>, "type")

decodeEnchantConfig(j) ==
    CASE j.k = "obj" ->
           LET id == decodeString(field(j, "id"), <<>>)
               level == decodeValue(field(j, "level"))
           IN Decoded(EnchantConfig(id.val, level.val), firstErr(id.err, level.err))
      [] j.k = "null" -> Decoded(EnchantConfig(<<>>, NoValue), "nil")
      [] OTHER -> Decoded(EnchantConfig(<<>>, NoValue), "type")

decodeFunction(j) ==
    CASE j.k = "obj" ->
           LET name == decodeString(field(j, "function"), "")
               count == decodeValue(field(j, "count"))
               levels == decodeValue(field(j, "levels"))
               id == decodeString(field(j, "id"), <<>>)
               enchants == decodeSlice(field(j, "enchants"),
                               [n \in DOMAIN elements(field(j, "enchants")) |->
                                   decodeEnchantConfig(elements(field(j, "enchants"))[n])])
           IN Decoded(Function(name.val, count.val, levels.val, id.val, enchants.val),
                      firstErr(name.err, firstErr(count.err, firstErr(levels.err,
                          firstErr(id.err, enchants.err)))))
      [] j.k = "null" -> Decoded(Function("", NoValue, NoValue, <<>>, <<>>), "nil")
      [] OTHER -> Decoded(Function("", NoValue, NoValue, <<>>, <<>>), "type")

decodeEntry(j) ==
    CASE j.k = "obj" ->
           LET type == decodeString(field(j, "type"), "")
               name == decodeString(field(j, "name"), <<>>)
               weight == decodeInt(field(j, "weight"))
               functions == decodeSlice(field(j, "functions"),
                               [n \in DOMAIN elements(field(j, "functions")) |->
                                   decodeFunction(elements(field(j, "functions"))[n])])
           IN Decoded(Entry(type.val, name.val, weight.val, functions.val),
                      firstErr(type.err, firstErr(name.err,
                          firstErr(weight.err, functions.err))))
      [] j.k = "null" -> Decoded(Entry("", <<>>, 0, <<>>), "nil")
      [] OTHER -> Decoded(Entry("", <<>>, 0, <<>>), "type")

decodePool(j) ==
    CASE j.k = "obj" ->
           LET rollsValue == decodeValue(field(j, "rolls"))
               entries == decodeSlice(field(j, "entries"),
                               [n \in DOMAIN elements(field(j, "entries")) |->
                                   decodeEntry(elements(field(j, "entries"))[n])])
           IN Decoded(Pool(rollsValue.val, entries.val),
                      firstErr(rollsValue.err, entries.err))
      [] j.k = "null" -> Decoded(Pool(NoValue, <<>>), "nil")
      [] OTHER -> Decoded(Pool(NoValue, <<>>), "type")

\* json.Unmarshal(b, &t) of line 39: t is the zero LootTable before it.
Unmarshal(b) ==
    CASE b.k = "invalid" -> Decoded(<<>>, "syntax")
      [] b.k = "obj" -> decodeSlice(field(b, "pools"),
                               [n \in DOMAIN elements(field(b, "pools")) |->
                                   decodePool(elements(field(b, "pools"))[n])])
      [] b.k = "null" -> Decoded(<<>>, "nil")
      [] OTHER -> Decoded(<<>>, "type")

\* func LoadTable(path string) (LootTable, error)
LoadTable(src) ==
    IF ~src.found THEN Decoded(<<>>, "notfound") ELSE Unmarshal(src.doc)

----------------------------------------------------------------------------
\* func Generate(path string) ([]item.Stack, bool)

\* The JSON values tried as a range.
RangeDocs ==
    {JInt(MaxRolls),
     JObj([min |-> JInt(1), max |-> JInt(MaxRolls)]),
     JObj([Min |-> JInt(1), Max |-> JInt(1)]),
     JObj([min |-> JStr("x"), max |-> JInt(MaxRolls)]),
     JStr("many"), JFloat, JArr(<<JInt(1)>>), JNull}

StickEntryDoc ==
    JObj([type |-> JStr("item"), name |-> JStr(<<"stick">>), weight |-> JInt(1),
          functions |-> JArr(<<JObj([function |-> JStr("set_count"),
                                     count |-> JObj([min |-> JInt(2),
                                                     max |-> JInt(2)])])>>)])

PoolDocs ==
    {JObj([rolls |-> r, entries |-> JArr(<<StickEntryDoc>>)]) : r \in RangeDocs}
    \cup {JObj([entries |-> JArr(<<StickEntryDoc>>)]),
          JObj([rolls |-> JInt(1), entries |-> JStr("none")]),
          JObj([rolls |-> JInt(1),
                entries |-> JArr(<<JObj([type |-> JStr("item"),
                                         name |-> JStr(<<"stick">>),
                                         weight |-> JStr("heavy")])>>)]),
          JStr("pool")}

TableDocs ==
    {JObj([pools |-> JArr(ps)]) : ps \in SeqsUpTo(PoolDocs, MaxPools)}
    \cup {JInvalid, JNull, JArr(<<>>), JStr("pools"), JInt(1),
          JObj([pools |-> JStr("none")]),
          JObj([pools |-> JInt(1)]),
          JObj([pools |-> JObj([rolls |-> JInt(1)])]),
          JObj([version |-> JInt(1)])}

Sources == {NoSource} \cup {[found |-> TRUE, doc |-> d] : d \in TableDocs}

InitParse ==
    /\ source \in Sources
    /\ loadErr = "unset"
    /\ pc = "load"
    /\ table = <<>> /\ pi = 0 /\ i = 0 /\ rolls = 0
    /\ stacks = <<>> /\ rolled = <<>> /\ calls = <<>>
    /\ ret = NoRet
    /\ range = NoValue

\* Line 24 with the check dropped.
loadFailedNever(err) == FALSE

\* Line 24: err != nil.
loadFailed(err) == err # "nil"

\* Lines 23-27: t, err := LoadTable(path), and the return of (nil, false)
\* on an error. table holds the local t.
GenerateLoad ==
    /\ pc = "load"
    /\ LET loaded == LoadTable(source) IN
         /\ loadErr' = loaded.err
         /\ table' = loaded.val
         /\ IF loadFailed(loaded.err)
            THEN pc' = "failed" /\ ret' = [ok |-> FALSE, stacks |-> <<>>]
            ELSE pc' = "idle" /\ ret' = NoRet
    /\ UNCHANGED <<pi, i, rolls, stacks, rolled, calls, range, source>>

\* Line 28: return t.Generate(), true, once t.Generate() has returned.
GenerateLoadedReturn ==
    /\ pc = "done" /\ loadErr = "nil"
    /\ pc' = "returned"
    /\ ret' = [ok |-> TRUE, stacks |-> stacks]
    /\ UNCHANGED <<table, pi, i, rolls, stacks, rolled, calls, range, source, loadErr>>

NextParse ==
    \/ GenerateLoad
    \/ GenerateStart
    \/ RollRolls
    \/ RollOnce
    \/ NextPool
    \/ GenerateReturn
    \/ GenerateLoadedReturn

SpecParse == InitParse /\ [][NextParse]_vars

----------------------------------------------------------------------------
\* Properties of Generate(path) and of parsing, checked under SpecParse.

Loaded == pc # "load"
Missing == ~source.found

\* The source is no JSON text, or its top-level value is not an object, or
\* its pools member is not an array.
TopLevelMalformed ==
    /\ source.found
    /\ \/ source.doc.k \in {"invalid", "arr", "str", "int", "float"}
       \/ /\ source.doc.k = "obj"
          /\ field(source.doc, "pools").k \notin {"arr", "null", "absent"}

\* j is missing, null or of one of the kinds.
OfKind(j, kinds) == j.k \in (kinds \cup {"null", "absent"})

IsMinMaxObject(j) ==
    /\ j.k = "obj"
    /\ OfKind(field(j, "min"), {"int"})
    /\ OfKind(field(j, "max"), {"int"})

\* A range value that is neither an integer nor a {min, max} object.
IsOddRange(j) == j.k \notin {"int", "null", "absent"} /\ ~IsMinMaxObject(j)

\* The members of a pool other than its rolls range are of the kinds the
\* structs declare (the documents tried as entries hold well-formed ranges).
EntryDocOk(e) ==
    /\ e.k = "obj"
    /\ OfKind(field(e, "type"), {"str"})
    /\ OfKind(field(e, "name"), {"str"})
    /\ OfKind(field(e, "weight"), {"int"})
    /\ OfKind(field(e, "functions"), {"arr"})
    /\ field(e, "functions").k = "arr" =>
         \A n \in DOMAIN field(e, "functions").e :
            LET fn == field(e, "functions").e[n] IN
            /\ fn.k = "obj"
            /\ OfKind(field(fn, "function"), {"str"})
            /\ OfKind(field(fn, "id"), {"str"})
            /\ OfKind(field(fn, "enchants"), {})

PoolDocOk(p) ==
    /\ p.k = "obj"
    /\ OfKind(field(p, "entries"), {"arr"})
    /\ field(p, "entries").k = "arr" =>
         \A n \in DOMAIN field(p, "entries").e : EntryDocOk(field(p, "entries").e[n])

\* The pools of the source, when it has an array of them.
PoolDocsOf(src) ==
    IF src.found /\ src.doc.k = "obj" /\ field(src.doc, "pools").k = "arr"
    THEN field(src.doc, "pools").e
    ELSE <<>>

\* C12: a missing source and a source whose top-level structure is malformed
\* make parsing fail with no LootTable; on a failed parse Generate(path)
\* returns no stacks and false and never runs LootTable.Generate; a range
\* that is neither an integer nor a {min, max} object does not fail the
\* parse and is the zero range.
C12_FailedLoadAndZeroRange ==
    Loaded =>
        /\ (Missing \/ TopLevelMalformed) => (loadErr # "nil" /\ table = <<>>)
        /\ loadErr # "nil" =>
             /\ pc = "failed"
             /\ ret = [ok |-> FALSE, stacks |-> <<>>]
             /\ stacks = <<>> /\ calls = <<>> /\ rolled = <<>> /\ pi = 0
        /\ LET docs == PoolDocsOf(source) IN
           /\ Len(table) = Len(docs)
           /\ \A j \in DOMAIN docs :
                (docs[j].k = "obj" /\ IsOddRange(field(docs[j], "rolls")))
                    => table[j].Rolls = Value(0, 0)
           /\ (source.found /\ ~TopLevelMalformed
                 /\ \A j \in DOMAIN docs : PoolDocOk(docs[j])) => loadErr = "nil"

\* C12 witness: the source whose pools member is a string was loaded:
\* Generate(path) returned no stacks and false without a LootTable.
C12_Witness ==
    /\ pc = "failed"
    /\ source = [found |-> TRUE, doc |-> JObj([pools |-> JStr("none")])]
    /\ loadErr = "type"
    /\ table = <<>>
    /\ ret = [ok |-> FALSE, stacks |-> <<>>]

====
